---- MODULE Spec2Model ----
(***************************************************************************)
(* Model of the Reelr chat relay (socket.io server, src/unnamed/part_001): *)
(* the presence registry onlineUsers, the socket authentication           *)
(* middleware verifyJWT, the Conversation and Message collections, and     *)
(* the event handlers send-message, load-messages, get-conversations,      *)
(* typing and check-online-status.                                         *)
(*                                                                         *)
(* Every `await` on a store call is one step of the handler's task: the    *)
(* step evaluates the store call (or lets it fail) and runs the handler    *)
(* up to its next store call.  Steps of different tasks interleave freely, *)
(* as the handlers do on the event loop.                                   *)
(*                                                                         *)
(* The specifications share the state and the actions: SpecPresence        *)
(* (sockets with any credential, the registry, typing), SpecStatus         *)
(* (check-online-status), Spec (verified sockets, send-message and         *)
(* load-messages with every payload), SpecHistory (well-formed sends and   *)
(* loads by pair, one more handler) and SpecListing (get-conversations).   *)
(***************************************************************************)
EXTENDS Integers, Sequences, FiniteSets, TLC

\* ------------------------------------------------------------------ bounds
MaxConns == 3        \* sockets opened over a run of the presence registry
RelayConns == 2      \* sockets opened over a run of the relay engine
MaxTasks == 2        \* event handler invocations over a run of the relay engine
PresenceTasks == 1   \* event handler invocations over a run of SpecPresence
HistoryTasks == 3    \* event handler invocations over a run of SpecHistory
HistoryPending == 2  \* handler invocations in progress at once in SpecHistory
ListingTasks == 2    \* event handler invocations over a run of SpecListing
StatusConns == 2     \* sockets opened over a run of SpecStatus
StatusTasks == 1     \* check-online-status events over a run of SpecStatus

\* ------------------------------------------------------- program constants
LoadLimit == 100     \* .limit(100) of load-messages

\* --------------------------------------------------------------- universes
Users == {"A", "B"}          \* identities carried by signed tokens
Missing == ""                \* a payload field that is absent or empty
Texts == {"hi"}              \* message texts
Stranger == "Z"              \* an identity that never connects
NoHandle == 0                \* onlineUsers.get(id) is undefined
NoId == 0                    \* no document / no reference

\* A credential: absent, or a token claiming an identity whose signature
\* either verifies under ACCESS_TOKEN_SECRET or does not.
NoToken == [present |-> FALSE, claims |-> Missing, signed |-> FALSE]
Tokens == {NoToken} \cup
          [present : {TRUE}, claims : Users, signed : BOOLEAN]
SignedTokens == {token \in Tokens : token.present /\ token.signed}

VARIABLES
    conns,          \* sockets in the order they were opened; socket.id = index
    onlineUsers,    \* the Map userId -> socket.id (NoHandle: no entry)
    conversations,  \* the Conversation collection, _id = index
    messages,       \* the Message collection, _id = index
    tasks,          \* handler invocations, in the order the events arrived
    emitted,        \* outbound events, in the order they were emitted
    now             \* the clock read by the timestamps plugin, which has
                    \* advanced whenever it is read again

vars == <<conns, onlineUsers, conversations, messages, tasks, emitted, now>>

\* ------------------------------------------------------------ small helpers
Handles == 1..Len(conns)
Active(h) == h \in Handles /\ conns[h].state = "active"
ActiveHandles == {h \in Handles : conns[h].state = "active"}

Range(s) == {s[i] : i \in 1..Len(s)}

Take(s, n) == IF Len(s) <= n THEN s ELSE SubSeq(s, 1, n)

\* An outbound event: its name, the sockets it is sent to, the handler
\* invocation (task, 0 for connect/disconnect) and socket it comes from.
Event(name, to, task, conn, data) ==
    [event |-> name, to |-> to, task |-> task, conn |-> conn, data |-> data]

\* ------------------------------------------------------- Identity Verifier
\* verifyJWT: next(new Error("Noo token provided")) without a token,
\* next(new Error("Unauthorized")) when jwt.verify throws, else socket.user
\* is the decoded payload and next() lets the connection through.
verifyJWT_unverified(token) ==
    IF ~token.present
        THEN [ok |-> FALSE, user |-> Missing, error |-> "Noo token provided"]
        ELSE [ok |-> TRUE, user |-> token.claims, error |-> ""]

verifyJWT(token) ==
    IF ~token.present
        THEN [ok |-> FALSE, user |-> Missing, error |-> "Noo token provided"]
    ELSE IF ~token.signed
        THEN [ok |-> FALSE, user |-> Missing, error |-> "Unauthorized"]
    ELSE [ok |-> TRUE, user |-> token.claims, error |-> ""]

\* ------------------------------------------------------- Presence Registry
\* The disconnect handler's registry update: onlineUsers.delete(userId).
DisconnectRegistry_forgets(h, userId) == onlineUsers

DisconnectRegistry(h, userId) == [onlineUsers EXCEPT ![userId] = NoHandle]

\* onlineUsers.get(id)
Lookup(id) == IF id \in DOMAIN onlineUsers THEN onlineUsers[id] ELSE NoHandle

Init ==
    /\ conns = <<>>
    /\ onlineUsers = [u \in Users |-> NoHandle]
    /\ conversations = <<>>
    /\ messages = <<>>
    /\ tasks = <<>>
    /\ emitted = <<>>
    /\ now = 0

\* A socket opens with a credential; io.use(verifyJWT) runs, and only when it
\* calls next() without an error does the "connection" handler run:
\* onlineUsers.set(userId, socket.id); io.emit("user-online", {userId}).
Connect(token, limit) ==
    /\ Len(conns) < limit
    /\ LET h == Len(conns) + 1
           v == verifyJWT(token)
       IN IF v.ok
            THEN /\ conns' = Append(conns, [token |-> token, user |-> v.user,
                                            state |-> "active", error |-> ""])
                 /\ onlineUsers' = [onlineUsers EXCEPT ![v.user] = h]
                 /\ emitted' = Append(emitted,
                        Event("user-online", ActiveHandles \cup {h}, 0, h,
                              [userId |-> v.user]))
            ELSE /\ conns' = Append(conns, [token |-> token, user |-> Missing,
                                            state |-> "rejected", error |-> v.error])
                 /\ UNCHANGED <<onlineUsers, emitted>>
    /\ UNCHANGED <<conversations, messages, tasks, now>>

\* socket.on("disconnect"): the socket has left the namespace when the
\* handler runs, so the broadcast reaches the other sockets.
Disconnect(h) ==
    /\ Active(h)
    /\ LET userId == conns[h].user
       IN /\ conns' = [conns EXCEPT ![h].state = "closed"]
          /\ onlineUsers' = DisconnectRegistry(h, userId)
          /\ emitted' = Append(emitted,
                 Event("user-offline", ActiveHandles \ {h}, 0, h,
                       [userId |-> userId]))
    /\ UNCHANGED <<conversations, messages, tasks, now>>

\* ------------------------------------------------------------ Relay Engine
\* A handler invocation.  to is the event's recipient field (the userIds
\* list of check-online-status), conversationId load-messages' payload field,
\* conv / msg the documents the handler holds, at the stamp the timestamps
\* plugin gave the document being written.
Task(kind, h, to, message, conversationId, pc, result) ==
    [kind |-> kind, conn |-> h, user |-> conns[h].user, to |-> to,
     message |-> message, conversationId |-> conversationId,
     pc |-> pc, conv |-> NoId, msg |-> NoId, at |-> 0, result |-> result]

TaskIds == 1..Len(tasks)
Pending == {t \in TaskIds : tasks[t].pc # "done"}
AtPc(t, kind, pc) == t \in TaskIds /\ tasks[t].kind = kind /\ tasks[t].pc = pc

\* if (!to || !message) return;
InvalidSend_onlyRecipient(to, message) == to = Missing

InvalidSend(to, message) == to = Missing \/ message = Missing

\* What the validation branch emits: it logs and returns.
InvalidSendEvents(t, h) == <<>>

\* participants: { $all: [userId, recipientId] }
MatchesAll(c, userId, recipientId) ==
    {userId, recipientId} \subseteq Range(conversations[c].participants)

FindConversations(userId, recipientId) ==
    {c \in 1..Len(conversations) : MatchesAll(c, userId, recipientId)}

\* Conversation.findOne(...): the first match in the collection's natural
\* (insertion) order, or null.
FindOne(userId, recipientId) ==
    IF FindConversations(userId, recipientId) = {} THEN NoId
    ELSE CHOOSE c \in FindConversations(userId, recipientId) :
            \A c2 \in FindConversations(userId, recipientId) : c <= c2

\* The catch block of send-message: socket.emit("message-error", ...).
SendCatchEvents_broadcast(t, h) ==
    <<Event("message-error", ActiveHandles, t, h,
            [error |-> "Failed to send message", details |-> "store error"])>>

SendCatchEvents(t, h) ==
    <<Event("message-error", {h}, t, h,
            [error |-> "Failed to send message", details |-> "store error"])>>

\* A store call of task t throws (any of them may, at any time): the
\* handler's catch block runs.
SendFails(t) ==
    /\ tasks' = [tasks EXCEPT ![t].pc = "done", ![t].result = "error"]
    /\ emitted' = emitted \o SendCatchEvents(t, tasks[t].conn)
    /\ UNCHANGED <<conns, onlineUsers, conversations, messages, now>>

\* socket.on("send-message", async ({to, message}) => ...), up to the first
\* await (Conversation.findOne).
SendMessage(h, to, message, limit) ==
    /\ Active(h)
    /\ Len(tasks) < limit
    /\ LET t == Len(tasks) + 1
       IN IF InvalidSend(to, message)
            THEN /\ tasks' = Append(tasks,
                        Task("send-message", h, to, message, NoId, "done", "invalid"))
                 /\ emitted' = emitted \o InvalidSendEvents(t, h)
            ELSE /\ tasks' = Append(tasks,
                        Task("send-message", h, to, message, NoId, "findConversation", ""))
                 /\ UNCHANGED emitted
    /\ UNCHANGED <<conns, onlineUsers, conversations, messages, now>>

\* Conversation.findOne resolves.  Found: Message.create is called next, not
\* found: Conversation.create; either way the timestamps plugin reads the
\* clock for the document being created.
SendFindConversation(t) ==
    /\ AtPc(t, "send-message", "findConversation")
    /\ \/ SendFails(t)
       \/ /\ FindOne(tasks[t].user, tasks[t].to) = NoId
          /\ now' = now + 1
          /\ tasks' = [tasks EXCEPT ![t].pc = "createConversation",
                                    ![t].at = now + 1]
          /\ UNCHANGED <<conns, onlineUsers, conversations, messages, emitted>>
       \/ /\ FindOne(tasks[t].user, tasks[t].to) # NoId
          /\ now' = now + 1
          /\ tasks' = [tasks EXCEPT ![t].pc = "createMessage",
                                    ![t].conv = FindOne(tasks[t].user, tasks[t].to),
                                    ![t].at = now + 1]
          /\ UNCHANGED <<conns, onlineUsers, conversations, messages, emitted>>

\* Conversation.create({participants: [userId, recipientId]}) resolves.
SendCreateConversation(t) ==
    /\ AtPc(t, "send-message", "createConversation")
    /\ \/ SendFails(t)
       \/ /\ conversations' = Append(conversations,
                 [participants |-> <<tasks[t].user, tasks[t].to>>,
                  lastMessage |-> NoId, updatedAt |-> tasks[t].at])
          /\ now' = now + 1
          /\ tasks' = [tasks EXCEPT ![t].pc = "createMessage",
                                    ![t].conv = Len(conversations) + 1,
                                    ![t].at = now + 1]
          /\ UNCHANGED <<conns, onlineUsers, messages, emitted>>

\* Message.create({conversationId, sender, text}) resolves; then
\* conversation.lastMessage = newMessage._id and conversation.save() is
\* called, which stamps updatedAt.
SendCreateMessage(t) ==
    /\ AtPc(t, "send-message", "createMessage")
    /\ \/ SendFails(t)
       \/ /\ messages' = Append(messages,
                 [conversationId |-> tasks[t].conv, sender |-> tasks[t].user,
                  text |-> tasks[t].message, seen |-> FALSE,
                  createdAt |-> tasks[t].at])
          /\ now' = now + 1
          /\ tasks' = [tasks EXCEPT ![t].pc = "saveConversation",
                                    ![t].msg = Len(messages) + 1,
                                    ![t].at = now + 1]
          /\ UNCHANGED <<conns, onlineUsers, conversations, emitted>>

\* What the handler emits once conversation.save() has resolved:
\* message-sent to its own socket, then receive-message to the socket
\* onlineUsers maps the recipient to, if any.
SendEvents_broadcast(t) ==
    LET k == tasks[t]
    IN <<Event("message-sent", {k.conn}, t, k.conn,
               [messageId |-> k.msg, conversationId |-> k.conv,
                timestamp |-> messages[k.msg].createdAt]),
         Event("receive-message", ActiveHandles, t, k.conn,
               [from |-> k.user, message |-> k.message,
                messageId |-> k.msg, conversationId |-> k.conv,
                timestamp |-> messages[k.msg].createdAt])>>

SendEvents(t) ==
    LET k == tasks[t]
        recipientSocketId == Lookup(k.to)
    IN <<Event("message-sent", {k.conn}, t, k.conn,
               [messageId |-> k.msg, conversationId |-> k.conv,
                timestamp |-> messages[k.msg].createdAt])>>
       \o (IF recipientSocketId # NoHandle
             THEN <<Event("receive-message", {recipientSocketId}, t, k.conn,
                          [from |-> k.user, message |-> k.message,
                           messageId |-> k.msg, conversationId |-> k.conv,
                           timestamp |-> messages[k.msg].createdAt])>>
             ELSE <<>>)

\* conversation.save() resolves, and the handler runs to its end.
SendSaveConversation(t) ==
    /\ AtPc(t, "send-message", "saveConversation")
    /\ \/ SendFails(t)
       \/ /\ conversations' = [conversations EXCEPT
                                 ![tasks[t].conv].lastMessage = tasks[t].msg,
                                 ![tasks[t].conv].updatedAt = tasks[t].at]
          /\ emitted' = emitted \o SendEvents(t)
          /\ tasks' = [tasks EXCEPT ![t].pc = "done", ![t].result = "sent"]
          /\ UNCHANGED <<conns, onlineUsers, messages, now>>

\* ---------------------------------------------------------- load-messages
\* Message.find({conversationId}).sort({createdAt: 1}): the ids of the
\* conversation's messages, earliest createdAt first (equal stamps in
\* insertion order).
ConversationMessages(c) ==
    {m \in 1..Len(messages) : messages[m].conversationId = c}

Earliest(ms) ==
    CHOOSE m \in ms : \A n \in ms :
        \/ messages[m].createdAt < messages[n].createdAt
        \/ messages[m].createdAt = messages[n].createdAt /\ m <= n

RECURSIVE SortByCreatedAt(_)
SortByCreatedAt(ms) ==
    IF ms = {} THEN <<>>
    ELSE <<Earliest(ms)>> \o SortByCreatedAt(ms \ {Earliest(ms)})

\* ... .limit(100).lean()
FindMessages(c) == Take(SortByCreatedAt(ConversationMessages(c)), LoadLimit)

\* socket.emit("messages-loaded", {messages: []}) when no conversation
\* resolves, else {messages, conversationId}.
LoadedEvent_notFoundIsError(t, h, ms, c) ==
    IF c = NoId
        THEN Event("messages-error", {h}, t, h, [error |-> "Failed to load messages"])
        ELSE Event("messages-loaded", {h}, t, h, [messages |-> ms, conversationId |-> c])

LoadedEvent(t, h, ms, c) ==
    Event("messages-loaded", {h}, t, h, [messages |-> ms, conversationId |-> c])

\* The catch block of load-messages.
LoadFails(t) ==
    /\ tasks' = [tasks EXCEPT ![t].pc = "done", ![t].result = "error"]
    /\ emitted' = Append(emitted,
           Event("messages-error", {tasks[t].conn}, t, tasks[t].conn,
                 [error |-> "Failed to load messages"]))
    /\ UNCHANGED <<conns, onlineUsers, conversations, messages, now>>

\* socket.on("load-messages", async ({conversationId, recipientId}) => ...),
\* up to the first await.  recipientId is read only without a conversationId;
\* with neither, no store call is made and the empty list is sent at once.
LoadMessages(h, conversationId, recipientId, limit) ==
    /\ Active(h)
    /\ Len(tasks) < limit
    /\ LET t == Len(tasks) + 1
       IN IF conversationId # NoId
            THEN /\ tasks' = Append(tasks,
                        Task("load-messages", h, recipientId, Missing,
                             conversationId, "findById", ""))
                 /\ UNCHANGED emitted
          ELSE IF recipientId # Missing
            THEN /\ tasks' = Append(tasks,
                        Task("load-messages", h, recipientId, Missing,
                             conversationId, "findConversation", ""))
                 /\ UNCHANGED emitted
          ELSE /\ tasks' = Append(tasks,
                      Task("load-messages", h, recipientId, Missing,
                           conversationId, "done", "loaded"))
               /\ emitted' = Append(emitted, LoadedEvent(t, h, <<>>, NoId))
    /\ UNCHANGED <<conns, onlineUsers, conversations, messages, now>>

\* What Conversation.findById / Conversation.findOne resolves to.
LoadConversation(t) ==
    IF tasks[t].pc = "findById"
        THEN IF tasks[t].conversationId \in 1..Len(conversations)
                THEN tasks[t].conversationId ELSE NoId
        ELSE FindOne(tasks[t].user, tasks[t].to)

\* The conversation lookup resolves: without a conversation the empty list
\* is sent, else Message.find is called.
LoadResolve(t) ==
    /\ \/ AtPc(t, "load-messages", "findById")
       \/ AtPc(t, "load-messages", "findConversation")
    /\ \/ LoadFails(t)
       \/ /\ LoadConversation(t) = NoId
          /\ tasks' = [tasks EXCEPT ![t].pc = "done", ![t].result = "loaded"]
          /\ emitted' = Append(emitted, LoadedEvent(t, tasks[t].conn, <<>>, NoId))
          /\ UNCHANGED <<conns, onlineUsers, conversations, messages, now>>
       \/ /\ LoadConversation(t) # NoId
          /\ tasks' = [tasks EXCEPT ![t].pc = "findMessages",
                                    ![t].conv = LoadConversation(t)]
          /\ UNCHANGED <<conns, onlineUsers, conversations, messages, emitted,
                         now>>

\* Message.find resolves and the list is sent.
LoadFindMessages(t) ==
    /\ AtPc(t, "load-messages", "findMessages")
    /\ \/ LoadFails(t)
       \/ /\ tasks' = [tasks EXCEPT ![t].pc = "done", ![t].result = "loaded"]
          /\ emitted' = Append(emitted,
                 LoadedEvent(t, tasks[t].conn, FindMessages(tasks[t].conv),
                             tasks[t].conv))
          /\ UNCHANGED <<conns, onlineUsers, conversations, messages, now>>

\* ------------------------------------------------------ get-conversations
\* Conversation.find({participants: userId})
ConversationsOf(userId) ==
    {c \in 1..Len(conversations) : userId \in Range(conversations[c].participants)}

\* .sort({updatedAt: -1}): latest updatedAt first (equal stamps in insertion
\* order).
Latest(cs) ==
    CHOOSE c \in cs : \A d \in cs :
        \/ conversations[c].updatedAt > conversations[d].updatedAt
        \/ conversations[c].updatedAt = conversations[d].updatedAt /\ c <= d

RECURSIVE SortByUpdatedAt(_)
SortByUpdatedAt(cs) ==
    IF cs = {} THEN <<>>
    ELSE <<Latest(cs)>> \o SortByUpdatedAt(cs \ {Latest(cs)})

\* .populate("participants", ...).populate("lastMessage").lean(): each
\* conversation with its participants and its last message (id).
Populate(c) ==
    [conversationId |-> c, participants |-> conversations[c].participants,
     lastMessage |-> conversations[c].lastMessage]

FindPopulated(userId) ==
    [i \in 1..Cardinality(ConversationsOf(userId)) |->
        Populate(SortByUpdatedAt(ConversationsOf(userId))[i])]

\* The catch block of get-conversations: console.error only.
GetCatchEvents(t, h) == <<>>

\* socket.on("get-conversations", async () => ...), up to the await.
GetConversations(h, limit) ==
    /\ Active(h)
    /\ Len(tasks) < limit
    /\ tasks' = Append(tasks,
            Task("get-conversations", h, Missing, Missing, NoId,
                 "findConversations", ""))
    /\ UNCHANGED <<conns, onlineUsers, conversations, messages, emitted, now>>

\* The query resolves and the list is sent, or it throws.
GetFindConversations(t) ==
    /\ AtPc(t, "get-conversations", "findConversations")
    /\ \/ /\ tasks' = [tasks EXCEPT ![t].pc = "done", ![t].result = "error"]
          /\ emitted' = emitted \o GetCatchEvents(t, tasks[t].conn)
       \/ /\ tasks' = [tasks EXCEPT ![t].pc = "done", ![t].result = "loaded"]
          /\ emitted' = Append(emitted,
                 Event("conversations-loaded", {tasks[t].conn}, t, tasks[t].conn,
                       [conversations |-> FindPopulated(tasks[t].user)]))
    /\ UNCHANGED <<conns, onlineUsers, conversations, messages, now>>

\* ------------------------------------------------------------------ typing
\* io.to(recipientSocketId).emit(name, {userId}) if the recipient has an
\* entry, else nothing.
TypingEvents(name, t, h, recipientId) ==
    IF Lookup(recipientId) # NoHandle
        THEN <<Event(name, {Lookup(recipientId)}, t, h, [userId |-> conns[h].user])>>
        ELSE <<>>

\* socket.on("typing", ({recipientId}) => ...)
Typing(h, recipientId, limit) ==
    /\ Active(h)
    /\ Len(tasks) < limit
    /\ tasks' = Append(tasks, Task("typing", h, recipientId, Missing, NoId, "done", ""))
    /\ emitted' = emitted \o TypingEvents("user-typing", Len(tasks) + 1, h, recipientId)
    /\ UNCHANGED <<conns, onlineUsers, conversations, messages, now>>

\* ------------------------------------------------------ check-online-status
\* onlineUsers.has(id)
Has_known(id) == id \in Users

Has(id) == Lookup(id) # NoHandle

\* userIds.forEach(id => { onlineStatuses[id] = onlineUsers.has(id); })
OnlineStatuses(userIds) == [id \in Range(userIds) |-> Has(id)]

\* The userIds lists a client asks about: empty, one identity, or two
\* (the same identity twice included).
UserIdLists ==
    {<<>>} \cup {<<a>> : a \in Users \cup {Stranger}}
           \cup {<<a, b>> : a \in Users \cup {Stranger}, b \in Users \cup {Stranger}}

\* socket.on("check-online-status", (userIds) => ...)
CheckOnlineStatus(h, userIds, limit) ==
    /\ Active(h)
    /\ Len(tasks) < limit
    /\ tasks' = Append(tasks,
            Task("check-online-status", h, userIds, Missing, NoId, "done", ""))
    /\ emitted' = Append(emitted,
            Event("online-statuses", {h}, Len(tasks) + 1, h,
                  OnlineStatuses(userIds)))
    /\ UNCHANGED <<conns, onlineUsers, conversations, messages, now>>

\* The presence registry and the handlers that only read it: sockets open
\* with any credential and close, and send typing notifications.
NextPresence ==
    \/ \E token \in Tokens : Connect(token, MaxConns)
    \/ \E h \in Handles : Disconnect(h)
    \/ \E h \in Handles, recipientId \in Users : Typing(h, recipientId, PresenceTasks)

SpecPresence == Init /\ [][NextPresence]_vars

\* Presence queries: verified sockets open and close and ask who is online.
NextStatus ==
    \/ \E token \in SignedTokens : Connect(token, StatusConns)
    \/ \E h \in Handles : Disconnect(h)
    \/ \E h \in Handles, userIds \in UserIdLists :
            CheckOnlineStatus(h, userIds, StatusTasks)

SpecStatus == Init /\ [][NextStatus]_vars

\* The relay engine: verified sockets open and close, and their events are
\* handled.
Next ==
    \/ \E token \in SignedTokens : Connect(token, RelayConns)
    \/ \E h \in Handles : Disconnect(h)
    \/ \E h \in Handles, to \in Users \cup {Missing}, message \in Texts \cup {Missing} :
            SendMessage(h, to, message, MaxTasks)
    \/ \E t \in TaskIds : SendFindConversation(t)
    \/ \E t \in TaskIds : SendCreateConversation(t)
    \/ \E t \in TaskIds : SendCreateMessage(t)
    \/ \E t \in TaskIds : SendSaveConversation(t)
    \/ \E h \in Handles, conversationId \in 1..(Len(conversations) + 1) :
            LoadMessages(h, conversationId, Missing, MaxTasks)
    \/ \E h \in Handles, recipientId \in Users \cup {Missing} :
            LoadMessages(h, NoId, recipientId, MaxTasks)
    \/ \E t \in TaskIds : LoadResolve(t)
    \/ \E t \in TaskIds : LoadFindMessages(t)

Spec == Init /\ [][Next]_vars

\* Conversation history: verified sockets open, send well-formed messages
\* to the other identity and load the history they share with it; one more
\* handler invocation than in Spec.
NextHistory ==
    \/ \E token \in SignedTokens : Connect(token, RelayConns)
    \/ \E h \in Handles, to \in Users, message \in Texts :
            /\ Cardinality(Pending) < HistoryPending
            /\ to # conns[h].user
            /\ SendMessage(h, to, message, HistoryTasks)
    \/ \E t \in TaskIds : SendFindConversation(t)
    \/ \E t \in TaskIds : SendCreateConversation(t)
    \/ \E t \in TaskIds : SendCreateMessage(t)
    \/ \E t \in TaskIds : SendSaveConversation(t)
    \/ \E h \in Handles, recipientId \in Users :
            /\ Cardinality(Pending) < HistoryPending
            /\ recipientId # conns[h].user
            /\ LoadMessages(h, NoId, recipientId, HistoryTasks)
    \/ \E t \in TaskIds : LoadResolve(t)
    \/ \E t \in TaskIds : LoadFindMessages(t)

SpecHistory == Init /\ [][NextHistory]_vars

\* Conversation listing: verified sockets open, send well-formed messages,
\* load histories by pair and list their conversations.
NextListing ==
    \/ \E token \in SignedTokens : Connect(token, RelayConns)
    \/ \E h \in Handles, to \in Users, message \in Texts :
            SendMessage(h, to, message, ListingTasks)
    \/ \E t \in TaskIds : SendFindConversation(t)
    \/ \E t \in TaskIds : SendCreateConversation(t)
    \/ \E t \in TaskIds : SendCreateMessage(t)
    \/ \E t \in TaskIds : SendSaveConversation(t)
    \/ \E h \in Handles, recipientId \in Users :
            LoadMessages(h, NoId, recipientId, ListingTasks)
    \/ \E t \in TaskIds : LoadResolve(t)
    \/ \E t \in TaskIds : LoadFindMessages(t)
    \/ \E h \in Handles : GetConversations(h, ListingTasks)
    \/ \E t \in TaskIds : GetFindConversations(t)

SpecListing == Init /\ [][NextListing]_vars
\* ================================================================= claims
EventsOf(t) == {i \in 1..Len(emitted) : emitted[i].task = t}
EventsFrom(h) == {i \in 1..Len(emitted) : emitted[i].conn = h}
Registered(u) == {h \in Handles : conns[h].user = u /\ conns[h].state # "rejected"}
Max(S) == CHOOSE x \in S : \A y \in S : y <= x
Closes(h) == conns[h].state = "active" /\ conns'[h].state = "closed"

\* C1: when a socket disconnects while the registry maps its identity to
\* another, still connected socket, the registry maps the identity to that
\* socket afterwards as well.
C1_StaleDisconnectKeepsNewer ==
    [][\A h \in Handles :
          LET cur == onlineUsers[conns[h].user]
          IN (Closes(h) /\ cur # h /\ Active(cur))
                => onlineUsers'[conns[h].user] = cur]_vars

\* C2: a disconnect broadcasts user-offline only if it removed its
\* identity's registry entry, that is, only if the registry held the
\* disconnecting socket's own handle.
C2_OfflineOnlyWhenRemoved ==
    [][\A h \in Handles :
          (/\ Closes(h)
           /\ Len(emitted') > Len(emitted)
           /\ emitted'[Len(emitted')].event = "user-offline")
                => /\ onlineUsers[conns[h].user] = h
                   /\ onlineUsers'[conns[h].user] = NoHandle]_vars

\* C3: lookup(identity) is the handle of the identity's last register, unless
\* that socket has unregistered since (then it is absent).  Sockets register
\* in the order of their handles.
C3_LookupIsLastRegister ==
    \A u \in Users :
        onlineUsers[u] =
            IF Registered(u) = {} THEN NoHandle
            ELSE IF conns[Max(Registered(u))].state = "active"
                THEN Max(Registered(u))
                ELSE NoHandle

\* C10: a socket whose credential is absent or fails verification is
\* rejected: it has no registry entry, no broadcast comes from it and none of
\* its events is handled; every registry entry and every user-online /
\* user-offline broadcast belongs to a socket with a verified identity.
Unverified(h) == ~conns[h].token.present \/ ~conns[h].token.signed

C10_RejectedNeverReachesRelay ==
    /\ \A h \in Handles : Unverified(h) =>
          /\ conns[h].state = "rejected"
          /\ \A u \in Users : onlineUsers[u] # h
          /\ EventsFrom(h) = {}
          /\ \A t \in TaskIds : tasks[t].conn # h
    /\ \A u \in Users : onlineUsers[u] # NoHandle =>
          /\ ~Unverified(onlineUsers[u])
          /\ conns[onlineUsers[u]].token.claims = u
    /\ \A i \in 1..Len(emitted) :
          emitted[i].event \in {"user-online", "user-offline"} =>
              /\ ~Unverified(emitted[i].conn)
              /\ emitted[i].data.userId = conns[emitted[i].conn].token.claims

\* C10's case: a socket without a token and one with a badly signed token
\* were turned away, while a verified socket registered and had an event
\* handled.
C10_Witness ==
    /\ \E h \in Handles : ~conns[h].token.present /\ conns[h].error = "Noo token provided"
    /\ \E h \in Handles : conns[h].token.present /\ ~conns[h].token.signed
                          /\ conns[h].error = "Unauthorized"
    /\ \E h \in Handles : /\ conns[h].state = "active"
                          /\ onlineUsers[conns[h].user] = h
                          /\ \E t \in TaskIds : tasks[t].conn = h

\* ---------------------------------------------------------- send-message
IsSend(k) == k.kind = "send-message"
IsLoadByPair(k) == k.kind = "load-messages" /\ k.conversationId = NoId /\ k.to \in Users
InvalidInput(k) == IsSend(k) /\ (k.to = Missing \/ k.message = Missing)
Pair(k) == {k.user, k.to}
EventNames(t) == {emitted[i].event : i \in EventsOf(t)}

\* C4: the Conversation collection holds at most one conversation per
\* unordered participant pair.
C4_OneConversationPerPair ==
    \A c1, c2 \in 1..Len(conversations) :
        Range(conversations[c1].participants) = Range(conversations[c2].participants)
            => c1 = c2

\* C5: a send-message whose `to` or `message` is missing or empty emits
\* message-error to the sending socket, and to no other socket.
C5_InvalidSendEmitsError ==
    \A t \in TaskIds : InvalidInput(tasks[t]) =>
        /\ \E i \in EventsOf(t) : emitted[i].event = "message-error"
        /\ \A i \in EventsOf(t) : emitted[i].to = {tasks[t].conn}

\* C6: no step of a send-message whose `to` or `message` is missing or empty
\* changes the Conversation collection, the Message collection or the
\* presence registry, and none emits message-sent or receive-message.
C6_InvalidSendNoEffect ==
    [][\A t \in 1..Len(tasks') :
          (/\ InvalidInput(tasks'[t])
           /\ (t > Len(tasks) \/ tasks'[t] # tasks[t]))
                => /\ UNCHANGED <<conversations, messages, onlineUsers>>
                   /\ \A i \in 1..Len(emitted') :
                         emitted'[i].task = t =>
                            emitted'[i].event \notin {"message-sent", "receive-message"}]_vars

\* C6's case: a send-message without text was handled while a conversation
\* with a message and a registry entry existed.
C6_Witness ==
    /\ \E t \in TaskIds : InvalidInput(tasks[t]) /\ tasks[t].message = Missing
                          /\ tasks[t].pc = "done"
    /\ Len(messages) > 0
    /\ \E u \in Users : onlineUsers[u] # NoHandle

\* C9: a send-message that ended in a store failure has emitted exactly one
\* event: message-error, carrying a detail, to the sending socket alone (so
\* neither message-sent nor receive-message).
C9_SendFailureOnlyErrors ==
    \A t \in TaskIds :
        (IsSend(tasks[t]) /\ tasks[t].result = "error") =>
            /\ Cardinality(EventsOf(t)) = 1
            /\ \A i \in EventsOf(t) :
                  /\ emitted[i].event = "message-error"
                  /\ emitted[i].to = {tasks[t].conn}
                  /\ emitted[i].data.details # ""

\* C9's case: conversation.save() failed after the message was created,
\* while the recipient and another socket were connected.
C9_Witness ==
    \E t \in TaskIds :
        /\ IsSend(tasks[t]) /\ tasks[t].result = "error"
        /\ tasks[t].msg # NoId
        /\ Lookup(tasks[t].to) \notin {NoHandle, tasks[t].conn}
        /\ Active(Lookup(tasks[t].to))

\* ---------------------------------------------------------- load-messages
SendsOfPair(P) == {s \in TaskIds : IsSend(tasks[s]) /\ ~InvalidInput(tasks[s])
                                    /\ Pair(tasks[s]) = P}
Min2(a, b) == IF a <= b THEN a ELSE b
Responds(t) == tasks[t].pc # "done" /\ tasks'[t].pc = "done" /\ tasks'[t].result = "loaded"
Loaded == emitted'[Len(emitted')].data.messages

\* C7: when a load-messages by pair for two identities A, B responds, and
\* the events handled before it are N send-message events between A and B
\* that all completed successfully, the list holds min(N, 100) messages, all of conversations of that
\* pair, in non-decreasing createdAt order.
C7_LoadReturnsAllOfPair ==
    [][\A t \in TaskIds :
          (/\ IsLoadByPair(tasks[t])
           /\ tasks[t].user # tasks[t].to
           /\ Responds(t)
           /\ \A s \in TaskIds \ {t} :
                 s \in SendsOfPair(Pair(tasks[t])) /\ tasks[s].result = "sent")
                => /\ Len(Loaded) = Min2(Cardinality(SendsOfPair(Pair(tasks[t]))), LoadLimit)
                   /\ \A i \in 1..Len(Loaded) :
                         Range(conversations[messages[Loaded[i]].conversationId].participants)
                            = Pair(tasks[t])
                   /\ \A i, j \in 1..Len(Loaded) :
                         i < j => messages[Loaded[i]].createdAt <= messages[Loaded[j]].createdAt]_vars

\* C8: a send-message that found no registry entry for its recipient has
\* emitted message-sent to the sender and nothing else, and its message is
\* stored; and a load-messages by pair answered to a recipient who was sent
\* a message while offline lists every message of the pair acknowledged
\* with message-sent before the answer.
Undelivered(s) == /\ IsSend(tasks[s]) /\ tasks[s].result = "sent"
                  /\ "receive-message" \notin EventNames(s)

C8_OfflineSendPersists ==
    /\ \A s \in TaskIds : Undelivered(s) =>
          /\ EventNames(s) = {"message-sent"}
          /\ \A i \in EventsOf(s) : emitted[i].to = {tasks[s].conn}
          /\ tasks[s].msg \in 1..Len(messages)
          /\ messages[tasks[s].msg].text = tasks[s].message
    /\ \A i \in 1..Len(emitted) :
          LET t == emitted[i].task
          IN (/\ emitted[i].event = "messages-loaded"
              /\ IsLoadByPair(tasks[t])
              /\ tasks[t].user # tasks[t].to
              /\ \E j \in 1..(i - 1) :
                    /\ emitted[j].event = "message-sent"
                    /\ Undelivered(emitted[j].task)
                    /\ tasks[emitted[j].task].to = tasks[t].user
                    /\ tasks[emitted[j].task].user = tasks[t].to)
                => \A j \in 1..(i - 1) :
                      (/\ emitted[j].event = "message-sent"
                       /\ Pair(tasks[emitted[j].task]) = Pair(tasks[t]))
                          => \E n \in 1..Len(emitted[i].data.messages) :
                                emitted[i].data.messages[n] = emitted[j].data.messageId

\* C11: check-online-status answers its sender with one boolean per listed
\* identity, true exactly for the identities that have a registry entry at
\* that moment (false for an identity never seen), and leaves the registry
\* as it was.
Asks(t) ==
    /\ Len(tasks') = Len(tasks) + 1
    /\ t = Len(tasks')
    /\ tasks'[t].kind = "check-online-status"

C11_StatusIsRegistryMembership ==
    [][\A t \in 1..Len(tasks') : Asks(t) =>
          LET asked == Range(tasks'[t].to)
              e == emitted'[Len(emitted')]
          IN /\ Len(emitted') = Len(emitted) + 1
             /\ e.event = "online-statuses"
             /\ e.to = {tasks'[t].conn}
             /\ DOMAIN e.data = asked
             /\ \A id \in asked :
                   e.data[id] = (id \in Users /\ onlineUsers[id] # NoHandle)
             /\ onlineUsers' = onlineUsers]_vars

\* An answer that reports a registered identity and the stranger.
C11_Witness ==
    \E i \in 1..Len(emitted) :
        /\ emitted[i].event = "online-statuses"
        /\ Stranger \in DOMAIN emitted[i].data
        /\ ~emitted[i].data[Stranger]
        /\ \E u \in Users : u \in DOMAIN emitted[i].data /\ emitted[i].data[u]

\* C12: a store failure in send-message, load-messages or get-conversations
\* emits an error event to the socket whose event failed, and leaves that
\* socket connected and the registry as it was.
ErrorEvents == {"message-error", "messages-error", "conversations-error"}
FailsNow(t) == tasks[t].result # "error" /\ tasks'[t].result = "error"

C12_FailureEmitsErrorToOriginator ==
    [][\A t \in TaskIds : FailsNow(t) =>
          /\ Len(emitted') = Len(emitted) + 1
          /\ emitted'[Len(emitted')].event \in ErrorEvents
          /\ emitted'[Len(emitted')].task = t
          /\ emitted'[Len(emitted')].to = {tasks[t].conn}
          /\ conns' = conns
          /\ onlineUsers' = onlineUsers]_vars

\* C13: of two send-message events from the same socket to the same
\* recipient that both succeed, the one received first has its message
\* stored first and its message-sent / receive-message emitted first.
SameRoute(t1, t2) ==
    /\ IsSend(tasks[t1]) /\ IsSend(tasks[t2])
    /\ tasks[t1].conn = tasks[t2].conn
    /\ tasks[t1].to = tasks[t2].to

C13_SameConnectionInOrder ==
    \A t1, t2 \in TaskIds :
        (/\ t1 < t2
         /\ SameRoute(t1, t2)
         /\ tasks[t1].result = "sent"
         /\ tasks[t2].result = "sent")
            => /\ tasks[t1].msg < tasks[t2].msg
               /\ \A i \in EventsOf(t1), j \in EventsOf(t2) : i < j

\* C14: whenever no send-message handler is in progress, every conversation
\* that has a message has lastMessage set to its most recently created
\* message (the one with the latest createdAt, or the one stored last).
SendsInProgress == {t \in Pending : IsSend(tasks[t])}
Newest(c) ==
    {m \in ConversationMessages(c) :
        \/ \A n \in ConversationMessages(c) :
              messages[n].createdAt <= messages[m].createdAt
        \/ \A n \in ConversationMessages(c) : n <= m}

C14_LastMessageIsNewest ==
    SendsInProgress = {} =>
        \A c \in 1..Len(conversations) :
            ConversationMessages(c) # {} =>
                conversations[c].lastMessage \in Newest(c)

\* C15: every conversation has exactly two participants, and they are
\* distinct identities.
C15_TwoDistinctParticipants ==
    \A c \in 1..Len(conversations) :
        /\ Len(conversations[c].participants) = 2
        /\ conversations[c].participants[1] # conversations[c].participants[2]

\* C16: the step that completes a send-message emits message-sent once, to
\* the sending socket only, and receive-message at most once, only to the
\* socket the registry maps the recipient to at that moment, which is a
\* socket of the recipient's identity; the send emits nothing before that
\* step and nothing after it.
Succeeds(t) == IsSend(tasks[t]) /\ tasks[t].pc # "done" /\ tasks'[t].result = "sent"
Emitting == (Len(emitted) + 1)..Len(emitted')
EmittingNamed(name) == {i \in Emitting : emitted'[i].event = name}

C16_DeliveryOnlyToRegisteredRecipient ==
    [][\A t \in TaskIds :
          /\ Succeeds(t) =>
                /\ EventsOf(t) = {}
                /\ Emitting = EmittingNamed("message-sent") \cup EmittingNamed("receive-message")
                /\ \A i \in Emitting : emitted'[i].task = t
                /\ Cardinality(EmittingNamed("message-sent")) = 1
                /\ \A i \in EmittingNamed("message-sent") :
                      emitted'[i].to = {tasks[t].conn}
                /\ Cardinality(EmittingNamed("receive-message")) <= 1
                /\ \A i \in EmittingNamed("receive-message") :
                      /\ emitted'[i].to = {onlineUsers[tasks[t].to]}
                      /\ Active(onlineUsers[tasks[t].to])
                      /\ conns[onlineUsers[tasks[t].to]].user = tasks[t].to
          /\ (IsSend(tasks[t]) /\ tasks[t].pc = "done") =>
                \A i \in Emitting : emitted'[i].task # t]_vars

\* C16's case: a send completed and its receive-message went to the
\* recipient's socket, another socket than the sender's.
C16_Witness ==
    \E t \in TaskIds : \E i \in EventsOf(t) :
        /\ tasks[t].result = "sent"
        /\ emitted[i].event = "receive-message"
        /\ emitted[i].to # {tasks[t].conn}
        /\ tasks[t].to # tasks[t].user

\* C17: a load-messages whose lookup resolves no conversation (neither
\* field given, a conversationId no document has, or a pair without a
\* conversation) answers its socket with messages-loaded and an empty list
\* in that very step, emits nothing else then or later, and leaves the
\* collections, the registry and the sockets as they were.
IsLoad(k) == k.kind = "load-messages"
Arrives(t) == t = Len(tasks') /\ Len(tasks') = Len(tasks) + 1
Returns(t) == t \in TaskIds /\ tasks'[t].pc # tasks[t].pc /\ tasks'[t].result # "error"
NoneResolved(t) ==
    /\ IsLoad(tasks'[t])
    /\ \/ /\ Arrives(t)
          /\ tasks'[t].conversationId = NoId
          /\ tasks'[t].to = Missing
       \/ /\ Returns(t)
          /\ tasks[t].pc = "findById"
          /\ tasks[t].conversationId \notin 1..Len(conversations)
       \/ /\ Returns(t)
          /\ tasks[t].pc = "findConversation"
          /\ \A c \in 1..Len(conversations) :
                ~({tasks[t].user, tasks[t].to} \subseteq Range(conversations[c].participants))

C17_NoConversationLoadsEmpty ==
    [][\A t \in 1..Len(tasks') :
          /\ NoneResolved(t) =>
                /\ tasks'[t].pc = "done"
                /\ Len(emitted') = Len(emitted) + 1
                /\ emitted'[Len(emitted')].event = "messages-loaded"
                /\ emitted'[Len(emitted')].task = t
                /\ emitted'[Len(emitted')].to = {tasks'[t].conn}
                /\ emitted'[Len(emitted')].data.messages = <<>>
                /\ UNCHANGED <<conversations, messages, onlineUsers, conns>>
          /\ (t \in TaskIds /\ IsLoad(tasks[t]) /\ tasks[t].pc = "done") =>
                \A i \in (Len(emitted) + 1)..Len(emitted') : emitted'[i].task # t]_vars

\* C17's case: with a conversation in the store, a load-messages for a
\* conversationId that no document has was answered with the empty list.
C17_Witness ==
    \E t \in TaskIds : \E i \in EventsOf(t) :
        /\ IsLoad(tasks[t])
        /\ tasks[t].conversationId \notin {NoId} \cup (1..Len(conversations))
        /\ Len(conversations) > 0
        /\ emitted[i].event = "messages-loaded"
        /\ emitted[i].data.messages = <<>>

\* C18: a send-message whose handler has ended was answered to its socket
\* with exactly one event out of message-sent and message-error.
Answers(t) ==
    {i \in EventsOf(t) : /\ emitted[i].event \in {"message-sent", "message-error"}
                         /\ emitted[i].to = {tasks[t].conn}}

C18_SendAnsweredOnce ==
    \A t \in TaskIds :
        (IsSend(tasks[t]) /\ tasks[t].pc = "done") => Cardinality(Answers(t)) = 1

\* C19: every handle in the registry is the handle of a socket that is
\* connected, and of the identity it is stored under.
C19_RegistryHandlesAreLive ==
    \A u \in Users :
        onlineUsers[u] # NoHandle =>
            /\ Active(onlineUsers[u])
            /\ conns[onlineUsers[u]].user = u

\* C19's case: an identity is registered under its live socket after
\* another socket of the same identity has closed.
C19_Witness ==
    \E u \in Users : \E h \in Handles :
        /\ onlineUsers[u] # NoHandle
        /\ onlineUsers[u] # h
        /\ conns[h].user = u
        /\ conns[h].state = "closed"

\* C20: every message a messages-loaded answer carries belongs to a
\* conversation that has the requesting socket's identity among its
\* participants.
C20_LoadsOnlyOwnConversations ==
    \A i \in 1..Len(emitted) :
        emitted[i].event = "messages-loaded" =>
            \A n \in 1..Len(emitted[i].data.messages) :
                tasks[emitted[i].task].user \in
                    Range(conversations[
                        messages[emitted[i].data.messages[n]].conversationId
                    ].participants)
====
